---- MODULE Spec2Model ----
(***************************************************************************)
(* Model of the news-impact pipeline:                                      *)
(*   app/core/langraph/tools/web_scraper.py                                *)
(*       extract_news_content, analyze_news_impact, NewsImpactTool         *)
(*   app/api/v1/chatbot.py                                                 *)
(*       analyze_news_impact_endpoint, chat_stream.event_generator         *)
(*                                                                         *)
(* A Python str is a sequence of one-character strings.  An Optional[str]  *)
(* is a record [present, text]; None is [present |-> FALSE].  A call of a  *)
(* function ends in an outcome record: it returns a value or it raises.    *)
(***************************************************************************)
EXTENDS Integers, Sequences, FiniteSets, TLC

\* ------------------------------------------------------------------ bounds
MaxTextLen == 4
MaxNodes == 2
MaxElems == 2
MaxWordsBound == 2
MaxChunks == 3

\* ------------------------------------------------------- program constants
DefaultMaxWords == 500

\* --------------------------------------------------------------- strings
\* The characters of the modelled texts; " " stands for every whitespace
\* character str.split() and str.strip() recognise.
Whitespace == {" "}
Chars == {"a", "b", " "}

Min(a, b) == IF a < b THEN a ELSE b

RECURSIVE lstrip(_)
lstrip(s) ==
    IF s = <<>> THEN <<>>
    ELSE IF Head(s) \in Whitespace THEN lstrip(Tail(s)) ELSE s

RECURSIVE rstrip(_)
rstrip(s) ==
    IF s = <<>> THEN <<>>
    ELSE IF s[Len(s)] \in Whitespace THEN rstrip(SubSeq(s, 1, Len(s) - 1)) ELSE s

\* str.strip()
strip(s) == rstrip(lstrip(s))

\* Length of the longest prefix of s free of whitespace.
RECURSIVE WordLen(_)
WordLen(s) ==
    IF s = <<>> \/ Head(s) \in Whitespace THEN 0 ELSE 1 + WordLen(Tail(s))

\* str.split() with no separator: the maximal runs of non-whitespace.
RECURSIVE split(_)
split(s) ==
    LET t == lstrip(s)
        n == WordLen(t)
    IN  IF t = <<>> THEN <<>>
        ELSE <<SubSeq(t, 1, n)>> \o split(SubSeq(t, n + 1, Len(t)))

\* sep.join(parts)
RECURSIVE join(_, _)
join(sep, parts) ==
    IF parts = <<>> THEN <<>>
    ELSE IF Len(parts) = 1 THEN parts[1]
    ELSE parts[1] \o sep \o join(sep, Tail(parts))

\* seq[:n] for n >= 0
Prefix(seq, n) == SubSeq(seq, 1, Min(n, Len(seq)))

\* ------------------------------------------------------------ Optional[str]
None == [present |-> FALSE, text |-> <<>>]
Some(s) == [present |-> TRUE, text |-> s]

\* Python truthiness of an Optional[str]: None and "" are falsy.
Truthy(o) == o.present /\ o.text # <<>>

\* ---------------------------------------------------------------- outcomes
Return(v) == [kind |-> "return", val |-> v, exc |-> "", formatted |-> FALSE]
Raise(e) == [kind |-> "raise", val |-> None, exc |-> e, formatted |-> FALSE]
NoCall == [kind |-> "none", val |-> None, exc |-> "", formatted |-> FALSE]

\* ------------------------------------------------------------- exceptions
\* The class an `except` clause sees for each exception the libraries raise.
ExcClass(e) ==
    CASE e \in {"ConnectionError", "Timeout", "MissingSchema", "HTTPError"}
             -> "RequestException"
      [] e = "ValueError" -> "ValueError"
      [] OTHER -> "Exception"

\* except (requests.RequestException, ValueError)
ExtractCatches(e) == ExcClass(e) \in {"RequestException", "ValueError"}

\* -------------------------------------------------------------- documents
\* A parsed document: whether it has a <body>, and its elements in document
\* order.  An element has a tag, a class attribute, an id attribute ("" when
\* the attribute is missing) and the text nodes of its subtree.
Tags == {"article", "div", "section"}
ClassVals == {"", "Main-Content", "sidebar"}
IdVals == {"", "article-42"}

\* re.compile(r'(article|content|main-content)', re.I).search(value), for the
\* attribute values of the model: "Main-Content" holds "content" up to case,
\* "article-42" holds "article"; "sidebar" and a missing attribute match
\* nothing.
PatternSearch(v) == v \in {"Main-Content", "article-42"}

\* First index at which flags holds TRUE, 0 when there is none
\* (soup.find returns the first match in document order, or None).
FindFirst(flags) ==
    IF \E i \in 1..Len(flags) : flags[i]
    THEN CHOOSE i \in 1..Len(flags) : flags[i] /\ \A j \in 1..(i - 1) : ~flags[j]
    ELSE 0

RECURSIVE AllStrings(_)
AllStrings(elems) ==
    IF elems = <<>> THEN <<>> ELSE Head(elems).strings \o AllStrings(Tail(elems))

Missing == [found |-> FALSE, strings |-> <<>>]
Found(strs) == [found |-> TRUE, strings |-> strs]

ElemAt(doc, i) == IF i = 0 THEN Missing ELSE Found(doc.elems[i].strings)

IsArticle(e) == e.tag = "article"
IsDivClass_AnyTag(e) == PatternSearch(e.class)
IsDivClass(e) == e.tag = "div" /\ PatternSearch(e.class)
IsDivId(e) == e.tag = "div" /\ PatternSearch(e.id)

FindBody(doc) == IF doc.hasBody THEN Found(AllStrings(doc.elems)) ELSE Missing

\* The list content_candidates, in the order the code builds it.
content_candidates(doc) ==
    << ElemAt(doc, FindFirst([i \in 1..Len(doc.elems) |-> IsArticle(doc.elems[i])])),
       ElemAt(doc, FindFirst([i \in 1..Len(doc.elems) |-> IsDivClass(doc.elems[i])])),
       ElemAt(doc, FindFirst([i \in 1..Len(doc.elems) |-> IsDivId(doc.elems[i])])),
       FindBody(doc) >>

\* Tag.get_text(strip=True): every text node stripped, the empty ones
\* dropped, the rest concatenated with the default separator "".
RECURSIVE get_text(_)
get_text(strings) ==
    IF strings = <<>> THEN <<>>
    ELSE strip(Head(strings)) \o get_text(Tail(strings))

\* The body of the candidate loop for the candidate it returns on.
CandidateText(cand, max_words) ==
    LET text == join(<<" ">>, split(get_text(cand.strings)))
        words == Prefix(split(text), max_words)
    IN  join(<<" ">>, words)

\* for candidate in content_candidates: if candidate: ... return
FirstCandidate_NonEmpty(cands) ==
    FindFirst([i \in 1..Len(cands) |-> cands[i].found /\ get_text(cands[i].strings) # <<>>])
FirstCandidate(cands) == FindFirst([i \in 1..Len(cands) |-> cands[i].found])

\* ------------------------------------------------------------------ pages
\* What a URL serves: the outcome of requests.get / raise_for_status, the
\* outcome of BeautifulSoup(...), and the parsed document.
FetchErrors == {"ConnectionError", "Timeout", "MissingSchema", "HTTPError", "ValueError"}
ParseErrors == {"ParserRejectedMarkup"}

extract_news_content(page, max_words) ==
    IF page.fetch # "ok"
    THEN IF ExtractCatches(page.fetch) THEN Return(None) ELSE Raise(page.fetch)
    ELSE IF page.parse # "ok"
    THEN IF ExtractCatches(page.parse) THEN Return(None) ELSE Raise(page.parse)
    ELSE LET cands == content_candidates(page.doc)
             k == FirstCandidate(cands)
         IN  IF k = 0 THEN Return(None)
             ELSE Return(Some(CandidateText(cands[k], max_words)))

\* ------------------------------------------------------------ the prompt
\* The f-string of analyze_news_impact, literal pieces as single tokens.
impact_prompt_NoContent(content, field) ==
    <<"\n    News Content: ">>
    \o <<"\n    \n    Analyze the potential impact of this news on the ">> \o field
    \o <<" sector:\n">>
    \o <<"    - Identify key events or developments\n">>
    \o <<"    - Explain potential short-term and long-term consequences\n">>
    \o <<"    - Provide specific insights related to ">> \o field
    \o <<"\n    ">>
impact_prompt(content, field) ==
    <<"\n    News Content: ">> \o content
    \o <<"\n    \n    Analyze the potential impact of this news on the ">> \o field
    \o <<" sector:\n">>
    \o <<"    - Identify key events or developments\n">>
    \o <<"    - Explain potential short-term and long-term consequences\n">>
    \o <<"    - Provide specific insights related to ">> \o field
    \o <<"\n    ">>

\* if not content: return None
ContentMissing_EmptyOnly(content) == content.present /\ content.text = <<>>
ContentMissing(content) == ~Truthy(content)

analyze_news_impact(page, field, max_words) ==
    LET r == extract_news_content(page, max_words)
    IN  IF r.kind = "raise" THEN r
        ELSE IF ContentMissing(r.val) THEN Return(None)
        ELSE [Return(Some(impact_prompt(r.val.text, field)))
                EXCEPT !.formatted = TRUE]

UnableMessage == <<"Unable to extract or analyze the news article content.">>

\* NewsImpactTool._run
NewsImpactTool_run(page, field) ==
    LET result == analyze_news_impact(page, field, DefaultMaxWords)
    IN  IF result.kind = "raise" THEN result
        ELSE IF ~result.val.present
             THEN [result EXCEPT !.val = Some(UnableMessage)]
             ELSE result

\* NewsImpactTool._arun
NewsImpactTool_arun(page, field) == NewsImpactTool_run(page, field)

\* ================================================================== state
VARIABLES
    entry,          \* the function the caller invoked
    url,            \* the requested URL (endpoint)
    page,           \* what the URL serves
    field,          \* the field label
    max_words,      \* the word ceiling passed to the extractor
    pc,             \* position of the call / handler / generator
    content,        \* outcome of extract_news_content inside this call
    ret,            \* outcome of the function the caller invoked
    llm,            \* outcome of the completion request (endpoint)
    trace,          \* components run by the endpoint, in order
    response,       \* the HTTP answer of the endpoint
    received,       \* chunks the agent has yielded (stream)
    full_response,  \* event_generator's accumulator
    events,         \* events the generator has emitted
    error           \* text of the exception the agent raised, if any

vars == <<entry, url, page, field, max_words, pc, content, ret, llm, trace,
          response, received, full_response, events, error>>

scraperVars == <<entry, url, page, field, max_words, llm, trace, response,
                 received, full_response, events, error>>

\* ----------------------------------------------------------------- inputs
\* The strings of at most n characters.
StringsUpTo(n) == UNION {[1..k -> Chars] : k \in 0..n}
Strings == StringsUpTo(MaxTextLen)

\* The sequences of exactly n text nodes holding at most budget characters.
RECURSIVE NodeSeqsOf(_, _)
NodeSeqsOf(n, budget) ==
    IF n = 0 THEN {<<>>}
    ELSE UNION { {<<str>> \o rest : rest \in NodeSeqsOf(n - 1, budget - Len(str))}
                 : str \in StringsUpTo(budget) }
NodeSeqs == UNION {NodeSeqsOf(n, MaxTextLen) : n \in 0..MaxNodes}

Elements == [tag : Tags, class : ClassVals, id : IdVals,
             strings : {<<>>, << <<"a">> >>}]

ArticleDoc(strs) ==
    [hasBody |-> TRUE,
     elems |-> << [tag |-> "article", class |-> "", id |-> "", strings |-> strs] >>]
EmptyDoc == [hasBody |-> FALSE, elems |-> <<>>]

\* One <article> in a <body>, with every sequence of text nodes.
TextDocs == {ArticleDoc(strs) : strs \in NodeSeqs}
\* Every arrangement of elements, with or without a <body>.
SelectDocs == [hasBody : BOOLEAN,
               elems : UNION {[1..n -> Elements] : n \in 0..MaxElems}]
\* The documents of the tool runs: one text node, or no element at all.
ToolDocs == {ArticleDoc(<<str>>) : str \in Strings}
            \cup [hasBody : BOOLEAN, elems : {<<>>}]

OkPage(doc) == [fetch |-> "ok", parse |-> "ok", doc |-> doc]
FailedPages ==
    {[fetch |-> e, parse |-> "ok", doc |-> EmptyDoc] : e \in FetchErrors}
    \cup {[fetch |-> "ok", parse |-> e, doc |-> EmptyDoc] : e \in ParseErrors}

ExtractPages == FailedPages \cup {OkPage(d) : d \in TextDocs \cup SelectDocs}
ToolPages == FailedPages \cup {OkPage(d) : d \in ToolDocs}

Fields == {<<"technology">>, <<"finance">>}
Urls == {"http://a.example/news", "http://b.example/news"}
WordLimits == 1..MaxWordsBound

NoResponse == [status |-> 0, body |-> <<>>]

Idle ==
    /\ url = "http://a.example/news"
    /\ llm = "ok"
    /\ trace = <<>>
    /\ response = NoResponse
    /\ received = <<>>
    /\ full_response = <<>>
    /\ events = <<>>
    /\ error = None

\* ------------------------------------------- extract_news_content, direct
Init ==
    /\ entry = "extract"
    /\ page \in ExtractPages
    /\ max_words \in WordLimits
    /\ field = <<>>
    /\ pc = "call"
    /\ content = NoCall
    /\ ret = NoCall
    /\ Idle

ExtractCall ==
    /\ entry = "extract"
    /\ pc = "call"
    /\ content' = extract_news_content(page, max_words)
    /\ ret' = extract_news_content(page, max_words)
    /\ pc' = "done"
    /\ UNCHANGED scraperVars

Next == ExtractCall

Spec == Init /\ [][Next]_vars

\* ------------------------------- analyze_news_impact and NewsImpactTool
InitTool ==
    /\ entry \in {"analyze", "run", "arun"}
    /\ page \in ToolPages
    /\ max_words \in (IF entry = "analyze" THEN WordLimits ELSE {DefaultMaxWords})
    /\ field \in Fields
    /\ pc = "call"
    /\ content = NoCall
    /\ ret = NoCall
    /\ Idle

AnalyzeCall ==
    /\ entry = "analyze"
    /\ pc = "call"
    /\ content' = extract_news_content(page, max_words)
    /\ ret' = analyze_news_impact(page, field, max_words)
    /\ pc' = "done"
    /\ UNCHANGED scraperVars

RunCall ==
    /\ entry = "run"
    /\ pc = "call"
    /\ content' = extract_news_content(page, DefaultMaxWords)
    /\ ret' = NewsImpactTool_run(page, field)
    /\ pc' = "done"
    /\ UNCHANGED scraperVars

ARunCall ==
    /\ entry = "arun"
    /\ pc = "call"
    /\ content' = extract_news_content(page, DefaultMaxWords)
    /\ ret' = NewsImpactTool_arun(page, field)
    /\ pc' = "done"
    /\ UNCHANGED scraperVars

NextTool == AnalyzeCall \/ RunCall \/ ARunCall

SpecTool == InitTool /\ [][NextTool]_vars

\* ------------------------------------------- analyze_news_impact_endpoint
\* The handler's first try block returns or raises on every path, so the
\* second try block (the call of analyze_news_impact and the 400 answer) is
\* never executed and has no action here.
\* Outcomes of the completion request: requests.post, raise_for_status,
\* response.json() and the indexing of the answer.
LlmErrors == {"ConnectionError", "Timeout", "HTTPError", "JSONDecodeError", "KeyError"}
LlmAnswer == <<"llm_content">>

\* The prompt the endpoint composes from the request alone.
EndpointPrompt(u, f) ==
    <<"Analyze the potential impact of this news article on the ">> \o f
    \o <<" sector. ", "URL: ", u, "\n",
         "Please extract the main content and provide:\n",
         "- Key events or developments\n",
         "- Potential short-term and long-term consequences\n",
         "- Specific insights related to ">> \o f

Event(name, text) == [ev |-> name, text |-> text]

endpointVars == <<entry, url, page, field, max_words, content, ret, llm,
                  received, full_response, events, error>>

InitEndpoint ==
    /\ entry = "endpoint"
    /\ url \in Urls
    /\ page \in ToolPages
    /\ field \in Fields
    /\ llm \in {"ok"} \cup LlmErrors
    /\ max_words = DefaultMaxWords
    /\ pc = "received"
    /\ content = NoCall
    /\ ret = NoCall
    /\ trace = <<>>
    /\ response = NoResponse
    /\ received = <<>>
    /\ full_response = <<>>
    /\ events = <<>>
    /\ error = None

\* The variant in which the handler builds its prompt with
\* analyze_news_impact before it calls the model.
PostToLLM_ExtractFirst ==
    /\ pc = "received"
    /\ LET question == analyze_news_impact(page, field, DefaultMaxWords)
       IN  trace' = trace \o << Event("extract", <<>>),
                                Event("format", <<>>),
                                Event("llm_call", question.val.text) >>
    /\ pc' = "posted"
    /\ UNCHANGED <<response, endpointVars>>

\* prompt = ...; requests.post(ollama_url, json=payload, timeout=60)
PostToLLM ==
    /\ pc = "received"
    /\ trace' = Append(trace, Event("llm_call", EndpointPrompt(url, field)))
    /\ pc' = "posted"
    /\ UNCHANGED <<response, endpointVars>>

\* return NewsImpactResponse(content=llm_content)
ReturnAnswer ==
    /\ pc = "posted"
    /\ llm = "ok"
    /\ response' = [status |-> 200, body |-> LlmAnswer]
    /\ trace' = Append(trace, Event("respond", LlmAnswer))
    /\ pc' = "done"
    /\ UNCHANGED endpointVars

\* except Exception as e: raise HTTPException(status_code=500, ...)
FailAnalysis ==
    /\ pc = "posted"
    /\ llm # "ok"
    /\ response' = [status |-> 500,
                    body |-> <<"Failed to analyze news impact: ", llm>>]
    /\ trace' = Append(trace, Event("respond", <<"Failed to analyze news impact: ", llm>>))
    /\ pc' = "done"
    /\ UNCHANGED endpointVars

NextEndpoint == PostToLLM \/ ReturnAnswer \/ FailAnalysis

SpecEndpoint == InitEndpoint /\ [][NextEndpoint]_vars

\* ------------------------------------------- chat_stream.event_generator
Chunks == {<<>>, <<"a">>, <<"b">>}
ErrorTexts == {<<>>, <<"agent failed">>}

\* StreamResponse(content=..., done=...), sent as one "data: ...\n\n" frame.
StreamResponse(c, d) == [content |-> c, done |-> d]

streamVars == <<entry, url, page, field, max_words, content, ret, llm,
                trace, response>>

InitStream ==
    /\ entry = "stream"
    /\ url = "http://a.example/news"
    /\ page = OkPage(EmptyDoc)
    /\ field = <<>>
    /\ llm = "ok"
    /\ max_words = DefaultMaxWords
    /\ pc = "streaming"
    /\ content = NoCall
    /\ ret = NoCall
    /\ trace = <<>>
    /\ response = NoResponse
    /\ received = <<>>
    /\ full_response = <<>>
    /\ events = <<>>
    /\ error = None

\* One turn of the async for loop: the agent yields a chunk.
AgentYield(chunk) ==
    /\ pc = "streaming"
    /\ Len(received) < MaxChunks
    /\ received' = Append(received, chunk)
    /\ full_response' = full_response \o chunk
    /\ events' = Append(events, StreamResponse(chunk, FALSE))
    /\ UNCHANGED <<pc, error, streamVars>>

\* The agent's stream is exhausted: the completion event.
AgentFinish ==
    /\ pc = "streaming"
    /\ events' = Append(events, StreamResponse(<<>>, TRUE))
    /\ pc' = "done"
    /\ UNCHANGED <<received, full_response, error, streamVars>>

\* The variant that logs the exception and ends the stream without an event.
AgentRaise_Silent(e) ==
    /\ pc = "streaming"
    /\ error' = Some(e)
    /\ pc' = "done"
    /\ UNCHANGED <<events, received, full_response, streamVars>>

\* The agent raises an Exception: except Exception as e: the error event.
AgentRaise(e) ==
    /\ pc = "streaming"
    /\ error' = Some(e)
    /\ events' = Append(events, StreamResponse(e, TRUE))
    /\ pc' = "done"
    /\ UNCHANGED <<received, full_response, streamVars>>

NextStream ==
    \/ \E chunk \in Chunks : AgentYield(chunk)
    \/ AgentFinish
    \/ \E e \in ErrorTexts : AgentRaise(e)

SpecStream == InitStream /\ [][NextStream]_vars

\* ================================================================= claims
\* sub occurs in seq as a contiguous run.
Contains(seq, sub) ==
    \E i \in 0..(Len(seq) - Len(sub)) : SubSeq(seq, i + 1, i + Len(sub)) = sub

\* The text content of a region: its text nodes as they stand, end to end.
RECURSIVE RawText(_)
RawText(strings) ==
    IF strings = <<>> THEN <<>> ELSE Head(strings) \o RawText(Tail(strings))

\* No text node of the region holds a non-whitespace character.
HasNoText(strings) ==
    \A i \in 1..Len(strings) : \A j \in 1..Len(strings[i]) : strings[i][j] \in Whitespace

Least(S) == CHOOSE i \in S : \A j \in S : i <= j

\* The region the priority order names: article, then class match, then id
\* match, then body; divOnly restricts the class and id matches to <div>.
RegionByPriority(doc, divOnly) ==
    LET E == doc.elems
        tagOk(i) == (~divOnly) \/ E[i].tag = "div"
        arts == {i \in 1..Len(E) : E[i].tag = "article"}
        cls == {i \in 1..Len(E) : tagOk(i) /\ PatternSearch(E[i].class)}
        ids == {i \in 1..Len(E) : tagOk(i) /\ PatternSearch(E[i].id)}
    IN  IF arts # {} THEN Found(E[Least(arts)].strings)
        ELSE IF cls # {} THEN Found(E[Least(cls)].strings)
        ELSE IF ids # {} THEN Found(E[Least(ids)].strings)
        ELSE IF doc.hasBody THEN Found(AllStrings(E))
        ELSE Missing

Parsed == page.fetch = "ok" /\ page.parse = "ok"
ExtractDone == entry = "extract" /\ pc = "done"

\* C1: extract_news_content never raises: whatever the fetch and the parse
\* do, the call returns, and it returns None in every failure case.
C1_NeverRaises ==
    ExtractDone =>
        /\ ret.kind = "return"
        /\ (~Parsed => ret.val = None)

\* C2: for a fetched and parsed page whose selected region holds N
\* whitespace-separated words, the result is the first min(N, max_words) of
\* them, in order, joined by single spaces: no word lost or merged.
C2_ExactWordPrefix ==
    LET region == RegionByPriority(page.doc, TRUE)
    IN  (ExtractDone /\ Parsed /\ region.found) =>
            ret = Return(Some(join(<<" ">>,
                      Prefix(split(RawText(region.strings)), max_words))))

\* C3 as stated: the region used is the first existing one of: first
\* article, first element of any tag with a matching class, first element of
\* any tag with a matching id, body.
C3_AnyTagPriority ==
    LET region == RegionByPriority(page.doc, FALSE)
    IN  (ExtractDone /\ Parsed) =>
            ret = IF region.found
                  THEN Return(Some(CandidateText(region, max_words)))
                  ELSE Return(None)

\* C3 amended: the region used is the first existing one of: first article,
\* first <div> with a matching class, first <div> with a matching id, body;
\* with none of them the result is None.
C3_DivPriority ==
    LET region == RegionByPriority(page.doc, TRUE)
    IN  (ExtractDone /\ Parsed) =>
            ret = IF region.found
                  THEN Return(Some(CandidateText(region, max_words)))
                  ELSE Return(None)

\* A <section> with a matching class and text sits in a body that holds more
\* text, with no article and no matching <div>: the body text is returned.
C3_Witness ==
    /\ ExtractDone /\ Parsed /\ page.doc.hasBody
    /\ \A i \in 1..Len(page.doc.elems) :
          /\ page.doc.elems[i].tag # "article"
          /\ ~IsDivClass(page.doc.elems[i])
          /\ ~IsDivId(page.doc.elems[i])
    /\ \E i \in 1..Len(page.doc.elems) :
          /\ page.doc.elems[i].tag = "section"
          /\ PatternSearch(page.doc.elems[i].class)
          /\ page.doc.elems[i].strings # <<>>
          /\ AllStrings(page.doc.elems) # page.doc.elems[i].strings
    /\ ret = Return(Some(CandidateText(Found(AllStrings(page.doc.elems)), max_words)))
    /\ ret.val.text # <<>>

\* C4: when the highest-priority region that exists holds no text, the
\* result is the empty string, whatever text the later candidates hold.
C4_EmptyRegionShortCircuits ==
    LET region == RegionByPriority(page.doc, TRUE)
    IN  (ExtractDone /\ Parsed /\ region.found /\ HasNoText(region.strings)) =>
            ret = Return(Some(<<>>))

\* An empty article inside a body that holds text: "" is returned.
C4_Witness ==
    /\ ExtractDone /\ Parsed /\ page.doc.hasBody
    /\ \E i \in 1..Len(page.doc.elems) :
          /\ page.doc.elems[i].tag = "article"
          /\ \A j \in 1..(i - 1) : page.doc.elems[j].tag # "article"
          /\ HasNoText(page.doc.elems[i].strings)
    /\ ~HasNoText(AllStrings(page.doc.elems))
    /\ ret = Return(Some(<<>>))

AnalyzeDone == entry = "analyze" /\ pc = "done"

\* C5: analyze_news_impact returns None whenever extract_news_content
\* returned None, without formatting a prompt; every failure kind gives the
\* caller the same None.
C5_AbsentPropagates ==
    (AnalyzeDone /\ content = Return(None)) => ret = Return(None)

\* A timed-out fetch and a parsed page without any candidate region both
\* reached the caller as None.
C5_Witness ==
    /\ AnalyzeDone /\ content = Return(None) /\ ret = Return(None)
    /\ \/ page.fetch = "Timeout"
       \/ Parsed /\ ~RegionByPriority(page.doc, TRUE).found

KeyEventsItem == "    - Identify key events or developments\n"
ConsequencesItem == "    - Explain potential short-term and long-term consequences\n"
InsightsItem == "    - Provide specific insights related to "

\* C6: for present, non-empty content c and field f the prompt contains c
\* verbatim, contains f and the three analysis items, and is the same for
\* every call that extracts the same content for the same field.
C6_PromptFromContentAndField ==
    (AnalyzeDone /\ content.kind = "return" /\ Truthy(content.val)) =>
        /\ ret.kind = "return" /\ ret.val.present /\ ret.formatted
        /\ Contains(ret.val.text, content.val.text)
        /\ Contains(ret.val.text, field)
        /\ Contains(ret.val.text, <<KeyEventsItem>>)
        /\ Contains(ret.val.text, <<ConsequencesItem>>)
        /\ Contains(ret.val.text, <<InsightsItem>> \o field)
        /\ \A p2 \in ToolPages : \A w2 \in WordLimits :
              extract_news_content(p2, w2) = content
                  => analyze_news_impact(p2, field, w2) = ret

\* Two-word content, truncated or not, came back inside a prompt.
C6_Witness ==
    /\ AnalyzeDone /\ content.kind = "return" /\ Truthy(content.val)
    /\ Contains(content.val.text, <<" ">>)
    /\ ret.val.present /\ Contains(ret.val.text, content.val.text)

\* C10: _run and _arun always return a string: the fixed message exactly
\* when extraction gave None or "", the prompt of analyze_news_impact
\* otherwise.
C10_ToolAlwaysReturnsString ==
    (entry \in {"run", "arun"} /\ pc = "done") =>
        /\ ret.kind = "return" /\ ret.val.present
        /\ content.kind = "return"
        /\ (ret.val.text = UnableMessage) <=> ~Truthy(content.val)
        /\ Truthy(content.val)
              => ret.val = Some(impact_prompt(content.val.text, field))

EventNames == [i \in 1..Len(trace) |-> trace[i].ev]

C8_AbsentGives400 ==
    (entry = "endpoint" /\ pc = "done"
        /\ analyze_news_impact(page, field, DefaultMaxWords) = Return(None))
    => response.status \in 400..499

====
